---- MODULE Spec2Model ----
(***************************************************************************)
(* A model of src/src/cpu.rs: the CPU struct, its opcode table, the        *)
(* addressing-mode resolver, the per-mnemonic handlers and the             *)
(* load / reset / run control surface.                                     *)
(*                                                                         *)
(* Integers keep their Rust width: u8 values live in 0..255, u16 values in *)
(* 0..65535, and every operation that can leave that range is modelled as  *)
(* the Rust operation the source uses (wrapping_add, overflowing_add, or   *)
(* the plain `+`, which panics when overflow checks are compiled in and    *)
(* wraps when they are not).  A panic is a value, not an omission: every   *)
(* operator that can panic returns a record with a `panic` field.          *)
(***************************************************************************)
EXTENDS Integers, Sequences, FiniteSets, TLC

VARIABLES
    register_a,       \* CPU.register_a : u8
    register_x,       \* CPU.register_x : u8
    register_y,       \* CPU.register_y : u8
    status,           \* CPU.status : u8
    program_counter,  \* CPU.program_counter : u16
    memory,           \* CPU.memory : [u8; 0xffff], kept as its non-zero cells
    overflow_checks,  \* build profile: TRUE when `+` panics on overflow
    run_state,        \* "new", "loaded", "running", "halted", or "load panicked",
                      \* "reset panicked", "run panicked": the call that panicked
    panic,            \* the panic that ended the execution, or "none"
    program,          \* the argument of the last load (history)
    fetched,          \* number of opcode fetches made by run (history)
    last,             \* the last iteration of run's loop (history)
    previous,         \* the iteration before the last (history)
    entered           \* how run was entered, and the registers before (history)

vars == <<register_a, register_x, register_y, status, program_counter, memory,
          overflow_checks, run_state, panic, program, fetched, last, previous,
          entered>>

cpu_vars == <<register_a, register_x, register_y, status, program_counter, memory>>

-----------------------------------------------------------------------------
(* Bounds of the model.                                                    *)

\* Sampled bytes lie within EdgeWidth of 0x00, 0x7f/0x80 and 0xff.
EdgeWidth == 2
\* Number of mem_write calls the caller makes before load.
MaxPokes == 1

-----------------------------------------------------------------------------
(* Program constants.                                                      *)

MEM_SIZE == \hffff
PROGRAM_BASE == \h8000
RESET_VECTOR == \hfffc

CARRY == 1
ZERO == 2
OVERFLOW == 64
SIGN == 128

U8 == 0..255
U8_MOD == 2 ^ 8
U16_MOD == 2 ^ 16

-----------------------------------------------------------------------------
(* Results of operations that may panic.                                   *)

Ok(v) == [panic |-> "none", val |-> v]
Panicked(why) == [panic |-> why, val |-> 0]

\* r's value handed to the rest of the computation, or r's panic
Bind(r, rest(_)) == IF r.panic # "none" THEN r ELSE rest(r.val)

\* r's value, or d when r is a panic
ValueOr(r, d) == IF r.panic # "none" THEN d ELSE r.val

-----------------------------------------------------------------------------
(* Bit operations on u8.                                                   *)

Bit(v, i) == (v \div (2 ^ i)) % 2

RECURSIVE BitAndFrom(_, _, _)
BitAndFrom(a, b, i) ==
    IF i > 7 THEN 0
    ELSE Bit(a, i) * Bit(b, i) * (2 ^ i) + BitAndFrom(a, b, i + 1)

\* a & b
BitAnd(a, b) == BitAndFrom(a, b, 0)

\* !a
BitNot(a) == 255 - a

\* a | b
BitOr(a, b) == a + b - BitAnd(a, b)

\* u8 / u16 wrapping_add
WrappingAddU8(a, b) == (a + b) % U8_MOD
WrappingAddU16(a, b) == (a + b) % U16_MOD

\* the plain `+` / `+=` on u16: panics when overflow checks are compiled in
AddU16(a, b, checks) ==
    IF a + b < U16_MOD THEN Ok(a + b)
    ELSE IF checks THEN Panicked("attempt to add with overflow")
    ELSE Ok((a + b) % U16_MOD)

\* `v as i8` for a u8 v, and `r as u8` for an i8 r
AsI8(v) == IF v >= 128 THEN v - 256 ELSE v
AsU8(r) == r % U8_MOD

\* i8::overflowing_add
OverflowingAddI8(x, y) ==
    LET sum == x + y
    IN  [val |-> ((sum + 128) % U8_MOD) - 128,
         overflow |-> (sum > 127 \/ sum < -128)]

-----------------------------------------------------------------------------
(* Memory: [u8; 0xffff], all zero at construction.  The array is kept as   *)
(* the function from its non-zero cells to their bytes.                    *)

ZeroedMemory == [a \in {} |-> 0]

Cell(mem, addr) == IF addr \in DOMAIN mem THEN mem[addr] ELSE 0

Store(mem, addr, data) ==
    IF data = 0
    THEN [a \in DOMAIN mem \ {addr} |-> mem[a]]
    ELSE [a \in DOMAIN mem \cup {addr} |-> IF a = addr THEN data ELSE mem[a]]


\* mem_read that wraps an index beyond the array to its start
mem_read_wraps(mem, addr) == Ok(Cell(mem, addr % MEM_SIZE))

mem_read(mem, addr) ==
    IF addr < MEM_SIZE THEN Ok(Cell(mem, addr))
    ELSE Panicked("index out of bounds")

mem_write(mem, addr, data) ==
    IF addr < MEM_SIZE THEN Ok(Store(mem, addr, data))
    ELSE Panicked("index out of bounds")

mem_read_u16(mem, addr, checks) ==
    Bind(mem_read(mem, addr), LAMBDA lo :
    Bind(AddU16(addr, 1, checks), LAMBDA next :
    Bind(mem_read(mem, next), LAMBDA hi :
    Ok(hi * 256 + lo))))

mem_write_u16(mem, addr, data, checks) ==
    Bind(mem_write(mem, addr, data % 256), LAMBDA first :
    Bind(AddU16(addr, 1, checks), LAMBDA next :
    mem_write(first, next, data \div 256)))

-----------------------------------------------------------------------------
(* Status flags.                                                           *)

get_flag(st, flag) == BitAnd(st, flag) # 0


\* set_flag that assigns the flag's bit where the source ORs it in
set_flag_assigns(st, flag, on) ==
    IF on THEN flag ELSE BitAnd(st, BitNot(flag))

set_flag(st, flag, on) ==
    IF on THEN BitOr(st, flag) ELSE BitAnd(st, BitNot(flag))

\* update_flags that sets the flags it finds and clears none
update_flags_never_clears(st, value) ==
    LET z == IF value = 0 THEN BitOr(st, ZERO) ELSE st
    IN  IF BitAnd(value, 128) # 0 THEN BitOr(z, SIGN) ELSE z

update_flags(st, value) ==
    set_flag(set_flag(st, ZERO, value = 0), SIGN, BitAnd(value, 128) # 0)

-----------------------------------------------------------------------------
(* The opcode table, in the order of the source.                           *)

OpCode(opcode, mnemonic, bytes, cycles, addr_mode) ==
    [opcode |-> opcode, mnemonic |-> mnemonic, bytes |-> bytes,
     cycles |-> cycles, addr_mode |-> addr_mode]


\* the table with the byte of LDA ZeroPage given to STA ZeroPage as well
CPU_OPCODES_duplicate == <<
    OpCode(\h69, "ADC", 2, 2, "Immediate"),
    OpCode(\h65, "ADC", 2, 3, "ZeroPage"),
    OpCode(\h75, "ADC", 2, 4, "ZeroPageX"),
    OpCode(\h6d, "ADC", 3, 4, "Absolute"),
    OpCode(\h7d, "ADC", 3, 4, "AbsoluteX"),
    OpCode(\h79, "ADC", 3, 4, "AbsoluteY"),
    OpCode(\h61, "ADC", 2, 6, "IndirectX"),
    OpCode(\h71, "ADC", 2, 5, "IndirectY"),
    OpCode(\h00, "BRK", 1, 7, "NoneAddressing"),
    OpCode(\he8, "INX", 1, 2, "NoneAddressing"),
    OpCode(\ha9, "LDA", 2, 2, "Immediate"),
    OpCode(\ha5, "LDA", 2, 3, "ZeroPage"),
    OpCode(\hb5, "LDA", 2, 4, "ZeroPageX"),
    OpCode(\had, "LDA", 3, 4, "Absolute"),
    OpCode(\hbd, "LDA", 3, 4, "AbsoluteX"),
    OpCode(\hb9, "LDA", 3, 4, "AbsoluteY"),
    OpCode(\ha1, "LDA", 2, 6, "IndirectX"),
    OpCode(\hb1, "LDA", 2, 5, "IndirectY"),
    OpCode(\ha5, "STA", 2, 3, "ZeroPage"),
    OpCode(\h95, "STA", 2, 4, "ZeroPageX"),
    OpCode(\h8d, "STA", 3, 4, "Absolute"),
    OpCode(\h9d, "STA", 3, 5, "AbsoluteX"),
    OpCode(\h99, "STA", 3, 5, "AbsoluteY"),
    OpCode(\h81, "STA", 2, 6, "IndirectX"),
    OpCode(\h91, "STA", 2, 6, "IndirectY"),
    OpCode(\haa, "TAX", 1, 2, "NoneAddressing")
>>

CPU_OPCODES == <<
    OpCode(\h69, "ADC", 2, 2, "Immediate"),
    OpCode(\h65, "ADC", 2, 3, "ZeroPage"),
    OpCode(\h75, "ADC", 2, 4, "ZeroPageX"),
    OpCode(\h6d, "ADC", 3, 4, "Absolute"),
    OpCode(\h7d, "ADC", 3, 4, "AbsoluteX"),
    OpCode(\h79, "ADC", 3, 4, "AbsoluteY"),
    OpCode(\h61, "ADC", 2, 6, "IndirectX"),
    OpCode(\h71, "ADC", 2, 5, "IndirectY"),
    OpCode(\h00, "BRK", 1, 7, "NoneAddressing"),
    OpCode(\he8, "INX", 1, 2, "NoneAddressing"),
    OpCode(\ha9, "LDA", 2, 2, "Immediate"),
    OpCode(\ha5, "LDA", 2, 3, "ZeroPage"),
    OpCode(\hb5, "LDA", 2, 4, "ZeroPageX"),
    OpCode(\had, "LDA", 3, 4, "Absolute"),
    OpCode(\hbd, "LDA", 3, 4, "AbsoluteX"),
    OpCode(\hb9, "LDA", 3, 4, "AbsoluteY"),
    OpCode(\ha1, "LDA", 2, 6, "IndirectX"),
    OpCode(\hb1, "LDA", 2, 5, "IndirectY"),
    OpCode(\h85, "STA", 2, 3, "ZeroPage"),
    OpCode(\h95, "STA", 2, 4, "ZeroPageX"),
    OpCode(\h8d, "STA", 3, 4, "Absolute"),
    OpCode(\h9d, "STA", 3, 5, "AbsoluteX"),
    OpCode(\h99, "STA", 3, 5, "AbsoluteY"),
    OpCode(\h81, "STA", 2, 6, "IndirectX"),
    OpCode(\h91, "STA", 2, 6, "IndirectY"),
    OpCode(\haa, "TAX", 1, 2, "NoneAddressing")
>>

\* An unassigned opcode decoded as if it were the table's INX entry.
decode_unknown_as_inx(opcode) ==
    LET hits == {i \in 1..Len(CPU_OPCODES) : CPU_OPCODES[i].opcode = opcode}
    IN  IF hits = {} THEN 10
        ELSE CHOOSE i \in hits : \A j \in hits : i <= j

\* An unassigned opcode decoded as if it were the table's BRK entry.
decode_unknown_as_brk(opcode) ==
    LET hits == {i \in 1..Len(CPU_OPCODES) : CPU_OPCODES[i].opcode = opcode}
    IN  IF hits = {} THEN 9
        ELSE CHOOSE i \in hits : \A j \in hits : i <= j

\* The scan `for op in CPU_OPCODES { if op.opcode == opcode {..; break} }`:
\* the index of the first entry with this raw byte, 0 when the scan finds none.
decode(opcode) ==
    LET hits == {i \in 1..Len(CPU_OPCODES) : CPU_OPCODES[i].opcode = opcode}
    IN  IF hits = {} THEN 0
        ELSE CHOOSE i \in hits : \A j \in hits : i <= j

-----------------------------------------------------------------------------
(* The CPU as a value: the fields of the struct.                           *)

Cpu(a, x, y, st, pc, mem) ==
    [a |-> a, x |-> x, y |-> y, status |-> st, pc |-> pc, memory |-> mem]

get_operand_address(cpu, mode, checks) ==
    CASE mode = "Immediate" -> Ok(cpu.pc)
      [] mode = "ZeroPage" -> mem_read(cpu.memory, cpu.pc)
      [] mode = "Absolute" -> mem_read_u16(cpu.memory, cpu.pc, checks)
      [] mode = "ZeroPageX" ->
            Bind(mem_read(cpu.memory, cpu.pc), LAMBDA base :
            Ok(WrappingAddU8(base, cpu.x)))
      [] mode = "ZeroPageY" ->
            Bind(mem_read(cpu.memory, cpu.pc), LAMBDA base :
            Ok(WrappingAddU8(base, cpu.y)))
      [] mode = "AbsoluteX" ->
            Bind(mem_read_u16(cpu.memory, cpu.pc, checks), LAMBDA base :
            Ok(WrappingAddU16(base, cpu.x)))
      [] mode = "AbsoluteY" ->
            Bind(mem_read_u16(cpu.memory, cpu.pc, checks), LAMBDA base :
            Ok(WrappingAddU16(base, cpu.y)))
      [] mode = "IndirectX" ->
            Bind(mem_read(cpu.memory, cpu.pc), LAMBDA base :
            mem_read_u16(cpu.memory, WrappingAddU16(base, cpu.x), checks))
      [] mode = "IndirectY" ->
            Bind(mem_read(cpu.memory, cpu.pc), LAMBDA addr :
            Bind(mem_read_u16(cpu.memory, addr, checks), LAMBDA deref :
            AddU16(deref, cpu.y, checks)))
      [] OTHER -> Panicked("NoneAddressing is not supported")

-----------------------------------------------------------------------------
(* The handlers.                                                           *)

\* adc_values with the carry out taken from a + m alone
adc_values_carry_of_a_m(a, m, c) ==
    LET a_m == OverflowingAddI8(AsI8(a), AsI8(m))
        res == OverflowingAddI8(a_m.val, AsI8(c))
        result_carry == WrappingAddU16(a, m) \div 256
        result_sign == IF res.val < 0 THEN -1 ELSE 0
    IN  [register_a |-> AsU8(res.val),
         carry |-> result_carry # 0,
         zero |-> res.val = 0,
         overflow |-> (a_m.overflow \/ res.overflow),
         sign |-> result_sign # 0]

\* The arithmetic of adc: the two overflowing_add calls on i8, the carry
\* out of the u16 sum, and the sign of the i8 result.
adc_values(a, m, c) ==
    LET a_m == OverflowingAddI8(AsI8(a), AsI8(m))
        res == OverflowingAddI8(a_m.val, AsI8(c))
        result_carry == WrappingAddU16(WrappingAddU16(a, m), c) \div 256
        result_sign == IF res.val < 0 THEN -1 ELSE 0
    IN  [register_a |-> AsU8(res.val),
         carry |-> result_carry # 0,
         zero |-> res.val = 0,
         overflow |-> (a_m.overflow \/ res.overflow),
         sign |-> result_sign # 0]

\* the assignments of adc, from the values it computed
adc_assign(cpu, r) ==
    [cpu EXCEPT
        !.a = r.register_a,
        !.status = set_flag(set_flag(set_flag(set_flag(cpu.status,
                       CARRY, r.carry), ZERO, r.zero), OVERFLOW, r.overflow),
                       SIGN, r.sign)]

adc(cpu, mode, checks) ==
    Bind(get_operand_address(cpu, mode, checks), LAMBDA addr :
    Bind(mem_read(cpu.memory, addr), LAMBDA m :
    Ok(adc_assign(cpu,
           adc_values(cpu.a, m, IF get_flag(cpu.status, CARRY) THEN 1 ELSE 0)))))

\* register_x and the flags after `self.register_x = x; self.update_flags(x)`
set_register_x(cpu, x) ==
    [cpu EXCEPT !.x = x, !.status = update_flags(cpu.status, x)]


\* inx that leaves the flags as they were
inx_keeps_flags(cpu) == Ok([cpu EXCEPT !.x = WrappingAddU8(cpu.x, 1)])

inx(cpu) == Ok(set_register_x(cpu, WrappingAddU8(cpu.x, 1)))

lda(cpu, mode, checks) ==
    Bind(get_operand_address(cpu, mode, checks), LAMBDA addr :
    Bind(mem_read(cpu.memory, addr), LAMBDA value :
    Ok([cpu EXCEPT !.a = value, !.status = update_flags(cpu.status, value)])))


\* sta that stores register_x
sta_stores_x(cpu, mode, checks) ==
    Bind(get_operand_address(cpu, mode, checks), LAMBDA addr :
    Bind(mem_write(cpu.memory, addr, cpu.x), LAMBDA written :
    Ok([cpu EXCEPT !.memory = written])))

sta(cpu, mode, checks) ==
    Bind(get_operand_address(cpu, mode, checks), LAMBDA addr :
    Bind(mem_write(cpu.memory, addr, cpu.a), LAMBDA written :
    Ok([cpu EXCEPT !.memory = written])))

tax(cpu) == Ok(set_register_x(cpu, cpu.a))

-----------------------------------------------------------------------------
(* One iteration of the loop of run, in the order of its steps: the opcode *)
(* fetch, `program_counter += 1`, the table scan, the match on the         *)
(* mnemonic, and `program_counter += op.bytes - 1`.                        *)

\* what an iteration leaves: the panic that ended it (or "none"), whether
\* run returned, the CPU, the byte fetched (-1: none) and the entry matched
\* (0: none)
Outcome(why, halted, cpu, opcode, entry) ==
    [panic |-> why, halted |-> halted, cpu |-> cpu, opcode |-> opcode, entry |-> entry]


\* the arms of the match with TAX sent through address resolution
execute_tax_resolves(cpu, op, checks) ==
    CASE op.mnemonic = "ADC" -> adc(cpu, op.addr_mode, checks)
      [] op.mnemonic = "INX" -> inx(cpu)
      [] op.mnemonic = "LDA" -> lda(cpu, op.addr_mode, checks)
      [] op.mnemonic = "STA" -> sta(cpu, op.addr_mode, checks)
      [] op.mnemonic = "TAX" -> Bind(get_operand_address(cpu, op.addr_mode, checks),
                                     LAMBDA addr : tax(cpu))

\* the arms of `match op.mnemonic` other than `BRK => return`
execute(cpu, op, checks) ==
    CASE op.mnemonic = "ADC" -> adc(cpu, op.addr_mode, checks)
      [] op.mnemonic = "INX" -> inx(cpu)
      [] op.mnemonic = "LDA" -> lda(cpu, op.addr_mode, checks)
      [] op.mnemonic = "STA" -> sta(cpu, op.addr_mode, checks)
      [] op.mnemonic = "TAX" -> tax(cpu)

\* `self.program_counter += op.bytes as u16 - 1`, given the sum
advance(cpu, opcode, entry, sum) ==
    IF sum.panic # "none" THEN Outcome(sum.panic, FALSE, cpu, opcode, entry)
    ELSE Outcome("none", FALSE, [cpu EXCEPT !.pc = sum.val], opcode, entry)


\* the end of a matched iteration that adds the whole of op.bytes
after_handler_adds_bytes(cpu, op, opcode, entry, checks, done) ==
    IF done.panic # "none" THEN Outcome(done.panic, FALSE, cpu, opcode, entry)
    ELSE advance(done.val, opcode, entry, AddU16(done.val.pc, op.bytes, checks))

\* the end of a matched iteration, given what the handler returned
after_handler(cpu, op, opcode, entry, checks, done) ==
    IF done.panic # "none" THEN Outcome(done.panic, FALSE, cpu, opcode, entry)
    ELSE advance(done.val, opcode, entry, AddU16(done.val.pc, op.bytes - 1, checks))

\* the iteration from the table scan on, given the entry it matched
dispatch(cpu, opcode, entry, checks) ==
    IF entry = 0 THEN Outcome("not implemented: opcode", FALSE, cpu, opcode, 0)
    ELSE IF CPU_OPCODES[entry].mnemonic = "BRK"
    THEN Outcome("none", TRUE, cpu, opcode, entry)
    ELSE after_handler(cpu, CPU_OPCODES[entry], opcode, entry, checks,
                       execute(cpu, CPU_OPCODES[entry], checks))

\* the iteration from `self.program_counter += 1` on, given the sum
after_fetch(cpu, opcode, checks, sum) ==
    IF sum.panic # "none" THEN Outcome(sum.panic, FALSE, cpu, opcode, 0)
    ELSE dispatch([cpu EXCEPT !.pc = sum.val], opcode, decode(opcode), checks)

\* the iteration from the opcode read on
fetch(cpu, checks, opcode) ==
    IF opcode.panic # "none" THEN Outcome(opcode.panic, FALSE, cpu, -1, 0)
    ELSE after_fetch(cpu, opcode.val, checks, AddU16(cpu.pc, 1, checks))

run_iteration(cpu, checks) == fetch(cpu, checks, mem_read(cpu.memory, cpu.pc))

-----------------------------------------------------------------------------
(* load and reset.                                                         *)

\* copy_from_slice that leaves the last byte of the program out
copy_from_slice_short(mem, p) ==
    [a \in (DOMAIN mem \ (PROGRAM_BASE..(PROGRAM_BASE + Len(p) - 2)))
              \cup {PROGRAM_BASE + i - 1 : i \in {j \in 1..(Len(p) - 1) : p[j] # 0}} |->
        IF a >= PROGRAM_BASE /\ a < PROGRAM_BASE + Len(p) - 1
        THEN p[a - PROGRAM_BASE + 1]
        ELSE mem[a]]


\* copy_from_slice that zeroes the bytes outside the range it copies to
copy_from_slice_clears(mem, p) ==
    [a \in {PROGRAM_BASE + i - 1 : i \in {j \in 1..Len(p) : p[j] # 0}} |->
        p[a - PROGRAM_BASE + 1]]

\* `self.memory[0x8000..(0x8000 + program.len())].copy_from_slice(&program[..])`,
\* where the range is within the array
copy_from_slice(mem, p) ==
    [a \in (DOMAIN mem \ (PROGRAM_BASE..(PROGRAM_BASE + Len(p) - 1)))
              \cup {PROGRAM_BASE + i - 1 : i \in {j \in 1..Len(p) : p[j] # 0}} |->
        IF a >= PROGRAM_BASE /\ a < PROGRAM_BASE + Len(p)
        THEN p[a - PROGRAM_BASE + 1]
        ELSE mem[a]]

load(cpu, p, checks) ==
    IF PROGRAM_BASE + Len(p) > MEM_SIZE THEN Panicked("range end index out of range")
    ELSE Bind(mem_write_u16(copy_from_slice(cpu.memory, p), RESET_VECTOR,
                            PROGRAM_BASE, checks), LAMBDA mem :
         Ok([cpu EXCEPT !.memory = mem]))

\* reset that zeroes register_y with the other registers
reset_zeroes_y(cpu, checks) ==
    Bind(mem_read_u16(cpu.memory, RESET_VECTOR, checks), LAMBDA vector :
    Ok([cpu EXCEPT !.a = 0, !.x = 0, !.y = 0, !.status = 0, !.pc = vector]))

reset(cpu, checks) ==
    Bind(mem_read_u16(cpu.memory, RESET_VECTOR, checks), LAMBDA vector :
    Ok([cpu EXCEPT !.a = 0, !.x = 0, !.status = 0, !.pc = vector]))

-----------------------------------------------------------------------------
(* The inputs: what the caller writes before load, and the programs.       *)

\* bytes within EdgeWidth of 0x00, of the sign boundary and of 0xff
EdgeBytes ==
    {b \in U8 : \/ b < EdgeWidth
                \/ (b >= 128 - EdgeWidth /\ b < 128 + EdgeWidth)
                \/ b >= 256 - EdgeWidth}

\* values the caller stores in the public field register_y
RegisterYValues == {\h10}

\* values the caller stores in the public fields register_a, register_x and
\* status: the status has a flag and the four unused bits set
RegisterAValues == {\h55}
RegisterXValues == {\haa}
StatusValues == {\h3d}

\* values the caller stores in the public field program_counter before a
\* run() without reset(): the program, the last address of the array, and
\* the one address that is not in the array
StartAddrs == {\h8000, \hfffe, \hffff}

\* arguments of the caller's mem_write calls before load
PokeAddrs == {\h20, \h8001}
PokeData == {\h10}

\* A carry-in of 0 (nothing) or 1 (LDA #$ff; ADC #$01), then LDA #a; ADC #m; BRK.
AdcPrograms ==
    {pre \o <<\ha9, a, \h69, m, \h00>> :
        pre \in {<< >>, <<\ha9, \hff, \h69, \h01>>}, a \in EdgeBytes, m \in EdgeBytes}

\* LDA #v; STA $10; STA $11; TAX: leaves A = X = v and the pointer v*257 at $10.
Prelude(v) == <<\ha9, v, \h85, \h10, \h85, \h11, \haa>>
PreludeBytes == {\h01, \hff}
OperandBytes == {\h10, \h11, \h1f, \h20, \hff}
OperandWords == {<<\h10, \h00>>, <<\hfc, \hff>>, <<\hfe, \hff>>, <<\hff, \hff>>}

\* The prelude, then one instruction of every entry that takes an operand, then BRK.
ModePrograms ==
    UNION {
        IF CPU_OPCODES[i].bytes = 2
        THEN {Prelude(v) \o <<CPU_OPCODES[i].opcode, b, \h00>> :
                 v \in PreludeBytes, b \in OperandBytes}
        ELSE IF CPU_OPCODES[i].bytes = 3
        THEN {Prelude(v) \o <<CPU_OPCODES[i].opcode>> \o w \o <<\h00>> :
                 v \in PreludeBytes, w \in OperandWords}
        ELSE {} : i \in 1..Len(CPU_OPCODES)}

\* LDA #v, then an STA and an LDA of the same address, then BRK: through
\* page zero, through an absolute address, and an STA into the operand of
\* the LDA #imm that follows it.
RoundTripPrograms ==
    UNION {
        {<<\ha9, v, \h85, \h10, \ha5, \h10, \h00>>,
         <<\ha9, v, \h8d, \h00, \h03, \had, \h00, \h03, \h00>>,
         <<\ha9, v, \h8d, \h06, \h80, \ha9, \h00, \h00>>} : v \in EdgeBytes}

\* LDA #v; TAX; INX; BRK
InxPrograms == {<<\ha9, v, \haa, \he8, \h00>> : v \in EdgeBytes}

\* the programs of the source's tests
TestPrograms == {
    <<\ha9, \h05, \h00>>,
    <<\ha9, \h00, \h00>>,
    <<\ha9, \h10, \haa, \h00>>,
    <<\ha9, \hc0, \haa, \he8, \h00>>,
    <<\ha9, \hff, \haa, \he8, \he8, \h00>>,
    <<\ha5, \h10, \h00>>,
    <<\ha9, \h10, \h85, \hff, \h00>>,
    <<\ha9, \h10, \h69, \h05, \h00>>,
    <<\ha9, \h7f, \h69, \h01, \h00>>,
    <<\ha9, \hff, \h69, \h01, \h00>>}

\* programs that reach a byte with no entry in the table
UnassignedPrograms == {
    <<\h02>>,
    <<\ha9, \h05, \haa, \hff>>,
    <<\ha9, \h80, \h85, \h10, \haa, \he8, \h02, \h00>>}

\* INX, zeros, and four TAX bytes at the end: n bytes in all.
LongProgram(n) ==
    [i \in 1..n |-> IF i = 1 THEN \he8 ELSE IF i > n - 4 THEN \haa ELSE 0]

\* The empty program, and the lengths around the reset vector and the end of
\* memory: the last that ends below the vector, the last that fits, the
\* first that does not.
SizedPrograms ==
    {<< >>,
     LongProgram(RESET_VECTOR - PROGRAM_BASE),
     LongProgram(MEM_SIZE - PROGRAM_BASE),
     LongProgram(MEM_SIZE - PROGRAM_BASE + 1)}

Programs ==
    AdcPrograms \cup ModePrograms \cup RoundTripPrograms \cup InxPrograms
        \cup TestPrograms
        \cup UnassignedPrograms \cup SizedPrograms

-----------------------------------------------------------------------------
(* The state machine.                                                      *)

Now == Cpu(register_a, register_x, register_y, status, program_counter, memory)

NoIteration ==
    [opcode |-> -1, mnemonic |-> "none", addr_mode |-> "none", addr |-> -1,
     before |-> Cpu(0, 0, 0, 0, 0, ZeroedMemory)]

\* CPU::new(), under either build profile
\* the history of the call that started run: which call it was, and the
\* registers it found
Entry(by) ==
    [by |-> by, a |-> register_a, x |-> register_x, y |-> register_y,
     status |-> status, pc |-> program_counter]

NotEntered == [by |-> "none", a |-> 0, x |-> 0, y |-> 0, status |-> 0, pc |-> 0]

Init ==
    /\ register_a = 0
    /\ register_x = 0
    /\ register_y = 0
    /\ status = 0
    /\ program_counter = 0
    /\ memory = ZeroedMemory
    /\ overflow_checks \in BOOLEAN
    /\ run_state = "new"
    /\ panic = "none"
    /\ program = << >>
    /\ fetched = 0
    /\ last = NoIteration
    /\ previous = NoIteration
    /\ entered = NotEntered

\* the caller's cpu.mem_write(addr, data) before load
MemWrite ==
    /\ run_state = "new"
    /\ Cardinality(DOMAIN memory) < MaxPokes
    /\ \E addr \in PokeAddrs, data \in PokeData :
          \E w \in {mem_write(memory, addr, data)} :
              /\ w.panic = "none"
              /\ memory' = w.val
    /\ UNCHANGED <<register_a, register_x, register_y, status, program_counter,
                   overflow_checks, run_state, panic, program, fetched, last, previous,
                   entered>>

\* the caller's assignments to the public fields register_a, register_x
\* and status
SetRegisters ==
    /\ run_state = "new"
    /\ \E a \in RegisterAValues, x \in RegisterXValues, st \in StatusValues :
          /\ register_a' = a
          /\ register_x' = x
          /\ status' = st
    /\ UNCHANGED <<register_y, program_counter, memory,
                   overflow_checks, run_state, panic, program, fetched, last, previous,
                   entered>>

\* the caller's assignment to the public field register_y
SetRegisterY ==
    /\ run_state = "new"
    /\ \E y \in RegisterYValues : register_y' = y
    /\ UNCHANGED <<register_a, register_x, status, program_counter, memory,
                   overflow_checks, run_state, panic, program, fetched, last, previous,
                   entered>>

Load ==
    /\ run_state = "new"
    /\ \E p \in Programs :
          \E r \in {load(Now, p, overflow_checks)} :
              /\ program' = p
              /\ panic' = r.panic
              /\ run_state' = IF r.panic # "none" THEN "load panicked" ELSE "loaded"
              /\ memory' = IF r.panic # "none" THEN memory ELSE r.val.memory
    /\ UNCHANGED <<register_a, register_x, register_y, status, program_counter,
                   overflow_checks, fetched, last, previous, entered>>

\* reset(), followed by the call of run()
Reset ==
    /\ run_state = "loaded"
    /\ \E r \in {reset(Now, overflow_checks)} :
          /\ panic' = r.panic
          /\ run_state' = IF r.panic # "none" THEN "reset panicked" ELSE "running"
          /\ register_a' = IF r.panic # "none" THEN 0 ELSE r.val.a
          /\ register_x' = IF r.panic # "none" THEN 0 ELSE r.val.x
          /\ status' = IF r.panic # "none" THEN 0 ELSE r.val.status
          /\ program_counter' = IF r.panic # "none" THEN program_counter ELSE r.val.pc
          /\ register_y' = IF r.panic # "none" THEN register_y ELSE r.val.y
          /\ memory' = IF r.panic # "none" THEN memory ELSE r.val.memory
          /\ entered' = IF r.panic # "none" THEN entered ELSE Entry("reset")
    /\ UNCHANGED <<overflow_checks, program, fetched, last, previous>>

\* the caller's assignment to the public field program_counter, followed by
\* the call of run() with no reset() before it
Run ==
    /\ run_state = "loaded"
    /\ \E start \in StartAddrs : program_counter' = start
    /\ run_state' = "running"
    /\ entered' = Entry("run")
    /\ UNCHANGED <<register_a, register_x, register_y, status, memory,
                   overflow_checks, panic, program, fetched, last, previous>>

\* the effective address the iteration's handler resolves, -1 when it
\* resolves none
resolved(cpu, entry, checks) ==
    IF entry = 0 THEN -1
    ELSE IF CPU_OPCODES[entry].addr_mode = "NoneAddressing" THEN -1
    ELSE ValueOr(get_operand_address([cpu EXCEPT !.pc = WrappingAddU16(cpu.pc, 1)],
                                     CPU_OPCODES[entry].addr_mode, checks), -1)

\* one iteration of the loop of run()
Step ==
    /\ run_state = "running"
    /\ \E r \in {run_iteration(Now, overflow_checks)} :
          /\ register_a' = r.cpu.a
          /\ register_x' = r.cpu.x
          /\ register_y' = r.cpu.y
          /\ status' = r.cpu.status
          /\ program_counter' = r.cpu.pc
          /\ memory' = r.cpu.memory
          /\ panic' = r.panic
          /\ run_state' = IF r.panic # "none" THEN "run panicked"
                          ELSE IF r.halted THEN "halted"
                          ELSE "running"
          /\ fetched' = IF r.opcode = -1 THEN fetched ELSE fetched + 1
          /\ last' = [opcode |-> r.opcode,
                      mnemonic |-> IF r.entry = 0 THEN "none"
                                   ELSE CPU_OPCODES[r.entry].mnemonic,
                      addr_mode |-> IF r.entry = 0 THEN "none"
                                    ELSE CPU_OPCODES[r.entry].addr_mode,
                      addr |-> resolved(Now, r.entry, overflow_checks),
                      before |-> Now]
          /\ previous' = last
    /\ UNCHANGED <<overflow_checks, program, entered>>

Next == MemWrite \/ SetRegisters \/ SetRegisterY \/ Load \/ Reset \/ Run \/ Step

Spec == Init /\ [][Next]_vars


-----------------------------------------------------------------------------
(* What the properties read off the last iteration of run.                 *)

\* the last iteration matched an entry of this mnemonic and ran its handler
\* to the end
Completed(mnemonic) ==
    /\ last.mnemonic = mnemonic
    /\ panic = "none"

\* the operand byte that follows the opcode of the last iteration
OperandByte == Cell(last.before.memory, last.before.pc + 1)

\* the little-endian 16-bit value at ptr and ptr + 1, before the last iteration
Word(ptr) == Cell(last.before.memory, ptr) + 256 * Cell(last.before.memory, ptr + 1)

\* the inputs of the last ADC: accumulator, operand and carry-in
AdcA == last.before.a
AdcM == Cell(last.before.memory, last.addr)
AdcC == last.before.status % 2

SignBit(v) == v \div 128

-----------------------------------------------------------------------------
(* C1: after ADC the Overflow flag is set exactly when a and m have the    *)
(* same sign bit and the 8-bit result (a + m + c) mod 256 has the opposite *)
(* sign bit; in every other case, carry-in 1 included, it is cleared.      *)
C1_OverflowIsSignedOverflow ==
    Completed("ADC") =>
        (get_flag(status, OVERFLOW) <=>
            /\ SignBit(AdcA) = SignBit(AdcM)
            /\ SignBit((AdcA + AdcM + AdcC) % 256) # SignBit(AdcA))

(* C2: ADC leaves register_a = (a + m + c) mod 256, Carry = (a + m + c >   *)
(* 255), Zero = (register_a = 0) and Sign = bit 7 of register_a.           *)
C2_AdcResultAndFlags ==
    Completed("ADC") =>
        /\ register_a = (AdcA + AdcM + AdcC) % 256
        /\ get_flag(status, CARRY) <=> (AdcA + AdcM + AdcC > 255)
        /\ get_flag(status, ZERO) <=> (register_a = 0)
        /\ get_flag(status, SIGN) <=> (register_a >= 128)

\* an ADC with carry-in 1 whose sum leaves the byte only because of the carry-in
C2_Witness ==
    /\ Completed("ADC")
    /\ AdcC = 1
    /\ AdcA + AdcM = 255
    /\ register_a = 0

(* C3: in every addressing mode, an LDA whose effective address holds v    *)
(* leaves register_a = v, Zero = (v = 0) and Sign = bit 7 of v, whatever   *)
(* the flags were before.                                                  *)
C3_LdaLoadsAndFlags ==
    Completed("LDA") =>
        /\ register_a = Cell(last.before.memory, last.addr)
        /\ get_flag(status, ZERO) <=> (Cell(last.before.memory, last.addr) = 0)
        /\ get_flag(status, SIGN) <=> (Cell(last.before.memory, last.addr) >= 128)

\* an LDA through a zero-page pointer, indexed by Y, that loads a negative byte
C3_Witness ==
    /\ Completed("LDA")
    /\ last.addr_mode = "IndirectY"
    /\ last.before.y = \h10
    /\ last.addr = \h10
    /\ register_a = \hff
    /\ get_flag(status, SIGN)
    /\ ~get_flag(status, ZERO)

(* C4: IndirectX resolution yields the little-endian 16-bit value stored   *)
(* at the zero-page pointer (b + X) mod 256, also when b + X exceeds 0xff. *)
C4_IndirectXWrapsInPageZero ==
    (last.addr_mode = "IndirectX" /\ last.addr # -1) =>
        last.addr = Word((OperandByte + last.before.x) % 256)

(* C5: IndirectY resolution yields (read16(b) + Y) mod 65536; when the     *)
(* base plus Y exceeds 0xffff it wraps and still returns an address.       *)
C5_IndirectYWraps ==
    last.addr_mode = "IndirectY" =>
        last.addr = (Word(OperandByte) + last.before.y) % 65536

(* C6: memory byte and 16-bit accesses never fail: in every execution of   *)
(* load, reset and run, each opcode fetch, operand fetch, pointer read and *)
(* effective-address read or write is inside the address space.            *)
C6_NoAccessOutOfBounds == panic # "index out of bounds"

\* the byte has no entry in the opcode table
Unassigned(opcode) == \A i \in 1..Len(CPU_OPCODES) : CPU_OPCODES[i].opcode # opcode

(* C7: when run fetches a byte that has no entry in the opcode table,      *)
(* execution stops with a decode error at that fetch, and register_a,      *)
(* register_x, register_y, status and all of memory hold the values they   *)
(* had after the last fully executed instruction.                          *)
C7_DecodeErrorStopsAndKeepsState ==
    (last.opcode # -1 /\ Unassigned(last.opcode)) =>
        /\ run_state = "run panicked"
        /\ panic = "not implemented: opcode"
        /\ register_a = last.before.a
        /\ register_x = last.before.x
        /\ register_y = last.before.y
        /\ status = last.before.status
        /\ memory = last.before.memory

\* a decode error after instructions that changed registers, flags and memory
C7_Witness ==
    /\ panic = "not implemented: opcode"
    /\ fetched > 1
    /\ register_a = \h80
    /\ register_x = \h81
    /\ get_flag(status, SIGN)
    /\ Cell(memory, \h10) = \h80

(* C8: run returns normally only at a step whose fetched byte decodes to   *)
(* BRK (0x00), and that step is terminal: after BRK is decoded no further  *)
(* byte is fetched and no register, flag or memory cell changes.           *)
C8_HaltOnlyOnBrkAndTerminal ==
    /\ [](run_state = "halted" => (last.opcode = 0 /\ last.mnemonic = "BRK"))
    /\ [][last.mnemonic = "BRK" => UNCHANGED <<cpu_vars, fetched>>]_vars

\* run returned after executing instructions before the BRK
C8_Witness ==
    /\ run_state = "halted"
    /\ fetched > 1
    /\ last.opcode = 0

(* C9: every way run can stop is one of two: a BRK was decoded, or an      *)
(* unassigned opcode byte was fetched; run stops for no other reason.      *)
C9_RunStopsOnlyByBrkOrDecodeError ==
    run_state = "run panicked" => panic = "not implemented: opcode"

\* the bytes of the reset vector after load: 0x8000, little-endian
VectorWritten ==
    /\ Cell(memory, RESET_VECTOR) = \h00
    /\ Cell(memory, RESET_VECTOR + 1) = \h80

\* load was called with a program that fits: 0x8000 + len <= memory size
LoadedFitting ==
    /\ run_state # "new"
    /\ PROGRAM_BASE + Len(program) <= MEM_SIZE

(* C10 as stated: for every program with 0x8000 + len <= memory size, load *)
(* succeeds and afterwards memory[0x8000 + i] = program[i] for every       *)
(* i < len and the bytes at 0xfffc/0xfffd are 0x00/0x80.                   *)
C10_LoadCopiesWholeProgram ==
    LoadedFitting =>
        /\ run_state # "load panicked"
        /\ run_state = "loaded" =>
              /\ \A i \in 1..Len(program) :
                    Cell(memory, PROGRAM_BASE + i - 1) = program[i]
              /\ VectorWritten

(* C10, amended: for every program with 0x8000 + len <= memory size, load  *)
(* succeeds and afterwards the bytes at 0xfffc/0xfffd are 0x00/0x80 and    *)
(* memory[0x8000 + i] = program[i] for every i < len whose address         *)
(* 0x8000 + i is not one of 0xfffc, 0xfffd.                                *)
C10_LoadCopiesProgramOutsideVector ==
    LoadedFitting =>
        /\ run_state # "load panicked"
        /\ run_state = "loaded" =>
              /\ \A i \in 1..Len(program) :
                    PROGRAM_BASE + i - 1 \notin {RESET_VECTOR, RESET_VECTOR + 1} =>
                        Cell(memory, PROGRAM_BASE + i - 1) = program[i]
              /\ VectorWritten

\* the longest program that fits has been loaded: its last byte lies above
\* the reset vector, its bytes at the vector were overwritten
C10_Witness ==
    /\ run_state = "loaded"
    /\ Len(program) = MEM_SIZE - PROGRAM_BASE
    /\ Cell(memory, MEM_SIZE - 1) = program[Len(program)]
    /\ program[RESET_VECTOR - PROGRAM_BASE + 1] # Cell(memory, RESET_VECTOR)

-----------------------------------------------------------------------------
(* C11: in every state after a load, through any following reset and any   *)
(* number of executed instructions of run, the memory bytes 0xfffc/0xfffd  *)
(* hold the little-endian reset vector written by load, 0x8000.            *)
C11_VectorKeptAfterLoad ==
    run_state \in {"loaded", "running", "halted", "reset panicked", "run panicked"} =>
        VectorWritten

(* C12: reset() sets register_a, register_x and status to 0 and            *)
(* program_counter to the little-endian 16-bit value stored at             *)
(* 0xfffc/0xfffd, and changes nothing else: register_y and every memory    *)
(* byte keep their previous values.                                        *)
C12_ResetZeroesAndKeepsTheRest ==
    [][Reset =>
          /\ register_a' = 0
          /\ register_x' = 0
          /\ status' = 0
          /\ program_counter' =
                 Cell(memory, RESET_VECTOR) + 256 * Cell(memory, RESET_VECTOR + 1)
          /\ register_y' = register_y
          /\ memory' = memory]_vars

\* reset found every register and the status non-zero, and the first
\* instruction has not run yet: register_y still holds its value
C12_Witness ==
    /\ entered.by = "reset"
    /\ entered.a # 0 /\ entered.x # 0 /\ entered.y # 0 /\ entered.status # 0
    /\ run_state = "running"
    /\ last = NoIteration
    /\ register_a = 0 /\ register_x = 0 /\ status = 0
    /\ register_y = entered.y
    /\ program_counter = PROGRAM_BASE
    /\ DOMAIN memory # {}

\* the bits of status outside the flags named
Outside(st, flags) == BitAnd(st, BitNot(flags))

\* the four status bits with no flag: bits 2 to 5
UnusedBits == 4 + 8 + 16 + 32

(* C13: each instruction changes only the flags its semantics name: STA    *)
(* changes no bit of status; LDA, TAX and INX change at most Zero and      *)
(* Sign; ADC changes at most Carry, Zero, Overflow and Sign; the four      *)
(* unused status bits (bits 2 to 5) are never changed by any instruction.  *)
C13_FlagsFrame ==
    last.mnemonic # "none" =>
        /\ last.mnemonic = "STA" => status = last.before.status
        /\ last.mnemonic \in {"LDA", "TAX", "INX"} =>
              Outside(status, ZERO + SIGN) = Outside(last.before.status, ZERO + SIGN)
        /\ last.mnemonic = "ADC" =>
              Outside(status, CARRY + ZERO + OVERFLOW + SIGN) =
                  Outside(last.before.status, CARRY + ZERO + OVERFLOW + SIGN)
        /\ BitAnd(status, UnusedBits) = BitAnd(last.before.status, UnusedBits)

\* an ADC ran with the four unused bits set, changed flags and left the
\* unused bits set
C13_Witness ==
    /\ Completed("ADC")
    /\ BitAnd(last.before.status, UnusedBits) = UnusedBits
    /\ status # last.before.status
    /\ BitAnd(status, UnusedBits) = UnusedBits

\* the last two iterations were an STA and then an LDA of the address the
\* STA wrote
StaThenLda ==
    /\ Completed("LDA")
    /\ previous.mnemonic = "STA"
    /\ previous.addr = last.addr

(* C14: store/load round trip: for every register_a value v and every     *)
(* effective address e, an STA that writes to e followed directly by an    *)
(* LDA that reads e leaves register_a = v, and the STA changes no memory   *)
(* byte other than e and no register other than the program counter.      *)
C14_StoreLoadRoundTrip ==
    /\ StaThenLda => register_a = previous.before.a
    /\ Completed("STA") =>
          /\ Cell(memory, last.addr) = last.before.a
          /\ \A addr \in (DOMAIN memory \cup DOMAIN last.before.memory) \ {last.addr} :
                Cell(memory, addr) = Cell(last.before.memory, addr)
          /\ register_a = last.before.a
          /\ register_x = last.before.x
          /\ register_y = last.before.y
          /\ status = last.before.status

\* an STA replaced the byte at an absolute address by a non-zero
\* register_a, and the LDA after it read the byte back
C14_Witness ==
    /\ StaThenLda
    /\ previous.addr_mode = "Absolute"
    /\ Cell(previous.before.memory, last.addr) # previous.before.a
    /\ register_a = previous.before.a
    /\ register_a # 0

(* C15: for every register_x value x, INX leaves register_x = (x + 1) mod  *)
(* 256 (0xff becomes 0x00, never an error), with Zero = (new register_x =  *)
(* 0) and Sign = (bit 7 of new register_x), and leaves register_a          *)
(* unchanged.                                                              *)
C15_InxWrapsAndSetsFlags ==
    last.mnemonic = "INX" =>
        /\ panic = "none"
        /\ register_x = (last.before.x + 1) % 256
        /\ get_flag(status, ZERO) = (register_x = 0)
        /\ get_flag(status, SIGN) = (register_x >= 128)
        /\ register_a = last.before.a

\* INX took register_x from 0x7f to 0x80 and set Sign where it was clear
C15_SignWitness ==
    /\ Completed("INX")
    /\ last.before.x = \h7f
    /\ register_x = \h80
    /\ ~get_flag(last.before.status, SIGN)
    /\ get_flag(status, SIGN)

\* INX took register_x from 0xff to 0x00 and set Zero where it was clear
C15_Witness ==
    /\ Completed("INX")
    /\ last.before.x = \hff
    /\ register_x = 0
    /\ ~get_flag(last.before.status, ZERO)
    /\ get_flag(status, ZERO)
    /\ ~get_flag(status, SIGN)

\* the addresses load may write for a program of len bytes
LoadWrites(len) ==
    (PROGRAM_BASE..(PROGRAM_BASE + len - 1)) \cup {RESET_VECTOR, RESET_VECTOR + 1}

(* C16: load(program) changes only the memory bytes in [0x8000, 0x8000 +   *)
(* len) and the two reset-vector bytes 0xfffc/0xfffd, and no register; so  *)
(* a byte written with mem_write to any other address before load_and_run  *)
(* still holds that value when the program reads it.                       *)
C16_LoadFrame ==
    [][(run_state = "new" /\ run_state' # "new") =>
          /\ register_a' = register_a
          /\ register_x' = register_x
          /\ register_y' = register_y
          /\ status' = status
          /\ program_counter' = program_counter
          /\ \A addr \in (DOMAIN memory \cup DOMAIN memory') \ LoadWrites(Len(program')) :
                Cell(memory', addr) = Cell(memory, addr)]_vars

\* a byte was written to 0x20 before the load, and after load and reset
\* the program's LDA $20 read that byte
C16_Witness ==
    /\ entered.by = "reset"
    /\ Completed("LDA")
    /\ last.addr_mode = "ZeroPage"
    /\ last.addr = \h20
    /\ register_a = \h10
    /\ Cell(ZeroedMemory, \h20) # register_a

\* the number of operand bytes an addressing mode reads after the opcode
OperandLength(mode) ==
    CASE mode = "NoneAddressing" -> 0
      [] mode \in {"Immediate", "ZeroPage", "ZeroPageX", "ZeroPageY",
                   "IndirectX", "IndirectY"} -> 1
      [] mode \in {"Absolute", "AbsoluteX", "AbsoluteY"} -> 2

(* C17: after every fully executed non-BRK instruction, program_counter    *)
(* equals the address of that instruction's opcode plus its declared byte  *)
(* length, which is exactly 1 plus the number of operand bytes its         *)
(* addressing mode reads (0 for NoneAddressing, 1 for Immediate, ZeroPage, *)
(* ZeroPageX, ZeroPageY, IndirectX, IndirectY, 2 for Absolute, AbsoluteX,  *)
(* AbsoluteY); address resolution itself never changes program_counter.    *)
C17_CounterAdvancesByLength ==
    /\ \A i \in 1..Len(CPU_OPCODES) :
          /\ CPU_OPCODES[i].bytes = 1 + OperandLength(CPU_OPCODES[i].addr_mode)
          /\ (Completed(CPU_OPCODES[i].mnemonic) /\ last.opcode = CPU_OPCODES[i].opcode
                  /\ last.mnemonic # "BRK") =>
                program_counter = last.before.pc + CPU_OPCODES[i].bytes
    /\ (last.opcode # -1 /\ panic # "none") => program_counter = last.before.pc + 1

\* a three-byte instruction ran: the counter is three beyond its opcode
C17_Witness ==
    /\ Completed("LDA")
    /\ last.addr_mode = "AbsoluteX"
    /\ last.addr # -1
    /\ program_counter = last.before.pc + 3

\* run is over: it returned at a BRK or a panic unwound it
Stopped == run_state \in {"halted", "run panicked"}

(* C18: run() always stops: the supported subset has no jump or branch, so *)
(* program_counter strictly increases with every executed instruction,     *)
(* and from any memory content and any starting program_counter run()      *)
(* reaches a halt, a decode error or another fatal stop after at most      *)
(* 65535 opcode fetches and never loops forever.                           *)
(* As a property of finite runs: every iteration of the loop either ends   *)
(* run or leaves program_counter greater than it found it, the counter     *)
(* never exceeds 0xffff, and the number of opcodes fetched never exceeds   *)
(* the counter; so the distance of the counter from 0xffff bounds the      *)
(* iterations that remain.                                                 *)
C18_RunAlwaysStops ==
    /\ [][run_state = "running" =>
             \/ Stopped'
             \/ /\ run_state' = "running"
                /\ program_counter' > program_counter
                /\ fetched' = fetched + 1]_vars
    /\ [](/\ program_counter <= \hffff
          /\ fetched <= program_counter
          /\ fetched <= 65535)

\* run executed the instruction at the last address of the array, and the
\* fetch at the address beyond it stopped run: the counter did not wrap
C18_Witness ==
    /\ Stopped
    /\ previous.mnemonic = "TAX"
    /\ previous.before.pc = MEM_SIZE - 1
    /\ last.opcode = -1
    /\ last.before.pc = MEM_SIZE
    /\ fetched = 1
    /\ panic = "index out of bounds"
    /\ program_counter = MEM_SIZE

(* C19: in no execution of run(), for any memory content, is the           *)
(* NoneAddressing mode passed to address resolution: every opcode-table    *)
(* entry whose mnemonic resolves an operand (ADC, LDA, STA) carries an     *)
(* addressing mode other than NoneAddressing, so the                       *)
(* invalid-addressing-mode fatal error is unreachable.                     *)
C19_NoneAddressingNeverResolved ==
    /\ \A i \in 1..Len(CPU_OPCODES) :
          CPU_OPCODES[i].mnemonic \in {"ADC", "LDA", "STA"} =>
              CPU_OPCODES[i].addr_mode # "NoneAddressing"
    /\ panic # "NoneAddressing is not supported"
    /\ last.addr_mode = "NoneAddressing" =>
          (last.mnemonic \in {"BRK", "INX", "TAX"} /\ panic = "none")

\* an instruction with NoneAddressing ran without resolving an address,
\* and the instruction after it resolved one
C19_Witness ==
    /\ previous.mnemonic = "TAX"
    /\ previous.addr_mode = "NoneAddressing"
    /\ previous.addr = -1
    /\ Completed("STA")
    /\ last.addr_mode # "NoneAddressing"
    /\ last.addr # -1

\* the entries of the table with this raw byte
Entries(opcode) == {i \in 1..Len(CPU_OPCODES) : CPU_OPCODES[i].opcode = opcode}

\* the instruction an iteration decoded its opcode to
Decoded(iteration) == <<iteration.mnemonic, iteration.addr_mode>>

(* C20: decoding is deterministic: no two entries of the opcode table      *)
(* share a raw opcode byte, so for every byte value the first-match table  *)
(* scan in run() selects at most one (mnemonic, addressing mode, byte      *)
(* length) and the same byte always decodes to the same instruction.       *)
C20_DecodingDeterministic ==
    /\ \A i, j \in 1..Len(CPU_OPCODES) :
          CPU_OPCODES[i].opcode = CPU_OPCODES[j].opcode => i = j
    /\ \A b \in U8 : Cardinality(Entries(b)) <= 1
    /\ last.opcode # -1 =>
          \A i \in Entries(last.opcode) :
              Decoded(last) = <<CPU_OPCODES[i].mnemonic, CPU_OPCODES[i].addr_mode>>
    /\ (last.opcode # -1 /\ previous.opcode = last.opcode) =>
          Decoded(previous) = Decoded(last)

\* the same byte was fetched in two iterations in a row and decoded to the
\* same instruction both times
C20_Witness ==
    /\ previous.opcode = \h85
    /\ last.opcode = \h85
    /\ Decoded(previous) = <<"STA", "ZeroPage">>
    /\ Decoded(last) = <<"STA", "ZeroPage">>
    /\ panic = "none"

====
